---- MODULE Spec2Model ----
(***************************************************************************)
(* Model of SimulationEngine (src/src/simulation_engine.py) and of the     *)
(* response model that the API layer wraps its result in (src/src/main.py).*)
(*                                                                         *)
(* Representation.                                                         *)
(*  - A Python str is Str(s), s a string (strip, startswith, len and       *)
(*    int() are computed on it character by character); None is the value  *)
(*    None below.                                                          *)
(*  - A dict is a TLA+ function whose DOMAIN is the set of keys present.   *)
(*  - Amounts that do not fit a machine integer are decimals               *)
(*    Dec(num, exp) = num * 10^exp: 20 gwei in wei is Dec(20, 9).          *)
(*    Floats are the exact decimals they approximate.                      *)
(***************************************************************************)
EXTENDS Integers, Sequences, FiniteSets, TLC

VARIABLES
    rpc_urls,           \* self.rpc_urls: chain id -> endpoint url
    w3_instances,       \* self.w3_instances: chain id -> client handle
    pc,                 \* position of the request in simulate_transaction
    args,               \* the arguments of the call in flight
    tx,                 \* the payload built at lines 102-113
    simulation_success, \* local of simulate_transaction
    error_msg,          \* local of simulate_transaction
    gas_estimate,       \* local of simulate_transaction
    current_gas_price,  \* local of simulate_transaction
    rpcLog,             \* the queries issued for the call in flight, in order
    result              \* the dict returned by simulate_transaction

vars == <<rpc_urls, w3_instances, pc, args, tx, simulation_success, error_msg,
          gas_estimate, current_gas_price, rpcLog, result>>

(***************************************************************************)
(* Python values                                                           *)
(***************************************************************************)
None == [tag |-> "None", v |-> ""]

Str(s) == [tag |-> "str", v |-> s]

IsStr(x) == x.tag = "str"

\* bool(x) of an Optional[str]: None and "" are falsy
Truthy(x) == IsStr(x) /\ Len(x.v) > 0

\* the outcome of evaluating an expression: a value, or a raised exception
\* carrying the text str(e)
Ok(x) == [ok |-> TRUE, val |-> x, exc |-> ""]

Raise(text) == [ok |-> FALSE, val |-> 0, exc |-> text]

Dec(n, e) == [num |-> n, exp |-> e]

RECURSIVE Rep(_, _)
Rep(c, n) == IF n <= 0 THEN "" ELSE c \o Rep(c, n - 1)

(***************************************************************************)
(* str.strip, str.startswith                                               *)
(***************************************************************************)
Whitespace == {" ", "\t", "\n"}

RECURSIVE lstrip(_)
lstrip(s) == IF Len(s) > 0 /\ Head(s) \in Whitespace THEN lstrip(Tail(s)) ELSE s

RECURSIVE rstrip(_)
rstrip(s) ==
    IF Len(s) > 0 /\ SubSeq(s, Len(s), Len(s)) \in Whitespace
    THEN rstrip(SubSeq(s, 1, Len(s) - 1))
    ELSE s

strip(s) == rstrip(lstrip(s))

startswith(s, p) == Len(s) >= Len(p) /\ SubSeq(s, 1, Len(p)) = p

(***************************************************************************)
(* int(s, base) of Python, for base 10 and 16: surrounding whitespace is   *)
(* dropped, one sign is allowed, base 16 allows a 0x/0X prefix, and single *)
(* underscores may separate digits (also right after the prefix).          *)
(***************************************************************************)
DigitChars == "0123456789abcdef"

UpperChars == "0123456789ABCDEF"

At(s, i) == SubSeq(s, i, i)

\* the value of digit c in the base, or -1
DigitVal(c, base) ==
    IF \E i \in 1..base : At(DigitChars, i) = c
    THEN (CHOOSE i \in 1..base : At(DigitChars, i) = c) - 1
    ELSE IF \E i \in 1..base : At(UpperChars, i) = c
    THEN (CHOOSE i \in 1..base : At(UpperChars, i) = c) - 1
    ELSE -1

\* digits with single underscores between them; -1 when malformed.
\* sep: the previous character was an underscore (or the body starts here and
\* may not start with one)
RECURSIVE ParseDigits(_, _, _, _)
ParseDigits(s, base, acc, sep) ==
    IF Len(s) = 0 THEN (IF sep THEN -1 ELSE acc)
    ELSE IF Head(s) = "_" THEN (IF sep THEN -1 ELSE ParseDigits(Tail(s), base, acc, TRUE))
    ELSE IF DigitVal(Head(s), base) < 0 THEN -1
    ELSE ParseDigits(Tail(s), base, acc * base + DigitVal(Head(s), base), FALSE)

\* the digits after sign and prefix; Ok(n) or the ValueError of int()
Digits(b, base) ==
    IF ParseDigits(b, base, 0, TRUE) < 0
    THEN Raise("invalid literal for int() with base " \o ToString(base))
    ELSE Ok(ParseDigits(b, base, 0, TRUE))

\* after a 0x prefix one underscore may come first
AfterPrefix(b, base) ==
    IF Len(b) > 0 /\ Head(b) = "_" THEN Digits(Tail(b), base) ELSE Digits(b, base)

Unsigned(u, base) ==
    IF base = 16 /\ Len(u) >= 2 /\ At(u, 1) = "0" /\ At(u, 2) \in {"x", "X"}
    THEN AfterPrefix(SubSeq(u, 3, Len(u)), base)
    ELSE Digits(u, base)

Negated(r) == IF r.ok THEN Ok(0 - r.val) ELSE r

Signed(t, base) ==
    IF Len(t) > 0 /\ Head(t) = "-" THEN Negated(Unsigned(Tail(t), base))
    ELSE IF Len(t) > 0 /\ Head(t) = "+" THEN Unsigned(Tail(t), base)
    ELSE Unsigned(t, base)

py_int(s, base) == Signed(strip(s), base)

\* ToInt with a number that does not parse read as 0 instead of raising
ToInt_Coerce(x) ==
    IF IsStr(x) /\ startswith(x.v, "0x")
    THEN (IF py_int(x.v, 16).ok THEN py_int(x.v, 16) ELSE Ok(0))
    ELSE IF IsStr(x)
    THEN (IF py_int(x.v, 10).ok THEN py_int(x.v, 10) ELSE Ok(0))
    ELSE Ok(0)

\* int(x, 16) if isinstance(x, str) and x.startswith("0x") else int(x)
ToInt(x) ==
    IF IsStr(x) /\ startswith(x.v, "0x") THEN py_int(x.v, 16)
    ELSE IF IsStr(x) THEN py_int(x.v, 10)
    ELSE Raise("int() argument must be a string, not 'NoneType'")

(***************************************************************************)
(* Construction: SimulationEngine.__init__                                 *)
(***************************************************************************)
\* the caller-supplied chain -> endpoint mapping (main.py RPC_URLS, an
\* endpoint read from the environment may be the empty string)
RPC_URLS == (1 :> "https://eth.llamarpc.com") @@ (56 :> "") @@ (137 :> "https://polygon-rpc.com")

\* chains whose Web3(...) construction may raise (caught at line 39)
CtorMayFail == {137}

\* W3Instances without the test of the endpoint: a client for every entry
W3Instances_KeepEmpty(urls, ctorFailed) ==
    [c \in {k \in DOMAIN urls : k \notin ctorFailed} |-> <<"Web3", urls[c]>>]

\* for chain_id, rpc_url in rpc_urls.items(): if rpc_url: try: ... except
W3Instances(urls, ctorFailed) ==
    [c \in {k \in DOMAIN urls : urls[k] # "" /\ k \notin ctorFailed} |-> <<"Web3", urls[c]>>]

(***************************************************************************)
(* simulate_transaction, lines 75-113: chain lookup, address               *)
(* normalization, payload                                                  *)
(***************************************************************************)
AddrLen == 42

\* w3 = self.w3_instances.get(chain_id); if not w3
Supported(inst, chain_id) == chain_id \in DOMAIN inst

UnsupportedResult(chain_id) ==
    [success |-> FALSE,
     error |-> Str("Chain " \o ToString(chain_id) \o " not supported"),
     chain_id |-> chain_id]

\* normalize_address without the test of the length
normalize_address_NoLen(addr) ==
    IF ~IsStr(addr) THEN Raise("'NoneType' object has no attribute 'strip'")
    ELSE IF ~startswith(strip(addr.v), "0x")
    THEN Raise("Invalid address format: " \o strip(addr.v))
    ELSE Ok(Str(strip(addr.v)))

normalize_address(addr) ==
    IF ~IsStr(addr) THEN Raise("'NoneType' object has no attribute 'strip'")
    ELSE LET a == strip(addr.v)
         IN  IF ~startswith(a, "0x") \/ Len(a) # AddrLen
             THEN Raise("Invalid address format: " \o a)
             ELSE Ok(Str(a))

InvalidAddressResult(chain_id, e) ==
    [success |-> FALSE,
     error |-> Str("Invalid address: " \o e),
     chain_id |-> chain_id]

\* UnexpectedResult without the outermost handler: the exception leaves
\* simulate_transaction
UnexpectedResult_Propagates(chain_id, e) == [raised |-> e, chain_id |-> chain_id]

\* the outermost except Exception
UnexpectedResult(chain_id, e) ==
    [success |-> FALSE,
     error |-> Str("Simulation failed: " \o e),
     chain_id |-> chain_id]

NoKeys == [k \in {} |-> 0]

\* tx = {...}; if gas: tx["gas"] = ...; if gas_price: tx["gasPrice"] = ...
BuildTx(from_addr, to_addr, a) ==
    LET value == ToInt(a.value)
        gas == IF Truthy(a.gas) THEN ToInt(a.gas) ELSE Ok(0)
        gasPrice == IF Truthy(a.gas_price) THEN ToInt(a.gas_price) ELSE Ok(0)
    IN  IF ~value.ok THEN Raise(value.exc)
        ELSE IF ~gas.ok THEN Raise(gas.exc)
        ELSE IF ~gasPrice.ok THEN Raise(gasPrice.exc)
        ELSE Ok([from |-> from_addr, to |-> to_addr, value |-> value.val, data |-> a.data]
                @@ (IF Truthy(a.gas) THEN [gas |-> gas.val] ELSE NoKeys)
                @@ (IF Truthy(a.gas_price) THEN [gasPrice |-> gasPrice.val] ELSE NoKeys))

\* lines 75-113 as a whole: either an early return or the payload for the
\* three queries
Prepare(inst, a) ==
    IF ~Supported(inst, a.chain_id)
    THEN [ret |-> TRUE, result |-> UnsupportedResult(a.chain_id), tx |-> NoKeys]
    ELSE LET f == normalize_address(a.from_address)
             t == normalize_address(a.to_address)
         IN  IF ~f.ok
             THEN [ret |-> TRUE, result |-> InvalidAddressResult(a.chain_id, f.exc), tx |-> NoKeys]
             ELSE IF ~t.ok
             THEN [ret |-> TRUE, result |-> InvalidAddressResult(a.chain_id, t.exc), tx |-> NoKeys]
             ELSE LET b == BuildTx(f.val, t.val, a)
                  IN  IF ~b.ok
                      THEN [ret |-> TRUE, result |-> UnexpectedResult(a.chain_id, b.exc), tx |-> NoKeys]
                      ELSE [ret |-> FALSE, result |-> NoKeys, tx |-> b.val]

(***************************************************************************)
(* simulate_transaction, lines 115-138: the three queries                  *)
(***************************************************************************)
\* a Python int, as returned by a query
PyInt(n) == [tag |-> "int", v |-> n]

IsInt(x) == x.tag = "int"

FallbackGas == 21000

FallbackGwei == 20

GweiExp == 9

EtherExp == 18

UnitExp(unit) == IF unit = "gwei" THEN GweiExp ELSE EtherExp

\* w3.to_wei(n, unit), w3.from_wei(d, unit)
to_wei(n, unit) == Dec(n, UnitExp(unit))

from_wei(d, unit) == Dec(d.num, d.exp - UnitExp(unit))

\* try: w3.eth.call(tx) ... except Exception as call_error
\* the pair <<simulation_success, error_msg>> after lines 116-123
AfterCall(out) ==
    IF out.ok THEN <<TRUE, None>> ELSE <<FALSE, Str(out.exc)>>

\* AfterEstimate with a fallback of no units
AfterEstimate_NoUnits(out, err) ==
    IF out.ok THEN <<out.val, err>>
    ELSE <<PyInt(0),
           IF ~Truthy(err) THEN Str("Gas estimation failed: " \o out.exc) ELSE err>>

\* try: w3.eth.estimate_gas(tx) ... except Exception as gas_error
\* the pair <<gas_estimate, error_msg>> after lines 126-132
AfterEstimate(out, err) ==
    IF out.ok THEN <<out.val, err>>
    ELSE <<PyInt(FallbackGas),
           IF ~Truthy(err) THEN Str("Gas estimation failed: " \o out.exc) ELSE err>>

\* AfterGasPrice with the fallback taken in wei instead of gwei
AfterGasPrice_InWei(out) ==
    IF out.ok THEN out.val ELSE PyInt(Dec(FallbackGwei, 0))

\* try: w3.eth.gas_price ... except: w3.to_wei(20, 'gwei')
AfterGasPrice(out) ==
    IF out.ok THEN out.val ELSE PyInt(to_wei(FallbackGwei, "gwei"))

(***************************************************************************)
(* simulate_transaction, lines 140-169: costs, asset changes, warnings     *)
(***************************************************************************)
RECURSIVE Pow10(_)
Pow10(k) == IF k <= 0 THEN 1 ELSE 10 * Pow10(k - 1)

UsdPlaces == 4

\* _get_eth_price: prices.get(chain_id, 3000)
_get_eth_price(chain_id) ==
    CASE chain_id = 1 -> 3000
      [] chain_id = 10 -> 3000
      [] chain_id = 56 -> 600
      [] chain_id = 137 -> 1
      [] chain_id = 42161 -> 3000
      [] chain_id = 8453 -> 3000
      [] chain_id = 43114 -> 40
      [] OTHER -> 3000

\* float(gas_cost_eth) * eth_price_usd for gas_cost_eth = d, as a count of
\* 10^-4 USD (units) plus the fraction frac/den of one such unit; the
\* product is formed in two parts to stay within machine integers
UsdCost(d, price) ==
    LET D == Pow10(0 - (d.exp + UsdPlaces))
        q == d.num \div D
        r == d.num % D
    IN  [units |-> q * price + ((r * price) \div D), frac |-> (r * price) % D, den |-> D]

\* gas_cost_usd > n, on the unrounded cost
UsdGT(u, n) ==
    \/ u.units > n * Pow10(UsdPlaces)
    \/ u.units = n * Pow10(UsdPlaces) /\ u.frac > 0

\* round(x, places) for x = u.units / 10^from (+ fraction), half to even,
\* as a count of 10^-places
RoundTo(u, from, places) ==
    LET S == Pow10(from - places)
        w == u.units \div S
        \* the discarded part against one half, both times 2 * den
        part == 2 * ((u.units % S) * u.den + u.frac)
        half == S * u.den
    IN  IF part > half \/ (part = half /\ w % 2 = 1) THEN w + 1 ELSE w

\* _analyze_asset_changes with the call data decoded: a token entry for the
\* selector of transfer(address,uint256)
_analyze_asset_changes_Decodes(from_addr, to_addr, value, data) ==
    (IF value > 0
     THEN << [asset_type |-> "NATIVE",
              change_type |-> "TRANSFER",
              from |-> from_addr,
              to |-> to_addr,
              amount_wei |-> value,
              amount_eth |-> from_wei(Dec(value, 0), "ether"),
              symbol |-> "ETH"] >>
     ELSE <<>>)
    \o (IF IsStr(data) /\ startswith(data.v, "0xa9059cbb")
        THEN << [asset_type |-> "ERC20",
                 change_type |-> "TRANSFER",
                 from |-> from_addr,
                 to |-> to_addr,
                 amount_wei |-> 0,
                 amount_eth |-> Dec(0, 0),
                 symbol |-> "TOKEN"] >>
        ELSE <<>>)

_analyze_asset_changes(from_addr, to_addr, value, data) ==
    IF value > 0
    THEN << [asset_type |-> "NATIVE",
             change_type |-> "TRANSFER",
             from |-> from_addr,
             to |-> to_addr,
             amount_wei |-> value,
             amount_eth |-> from_wei(Dec(value, 0), "ether"),
             symbol |-> "ETH"] >>
    ELSE <<>>

HighGasLimit == 1000000

HighCostUsd == 10

ExtremeCostUsd == 50

WarnFail == "Transaction will likely FAIL - Do not execute"

WarnHighGas(gas) == "Very high gas usage: " \o ToString(gas) \o " gas"

\* f"High gas cost: ${gas_cost_usd:.2f}", the cost in cents
WarnHighCost(u) == "High gas cost: " \o ToString(RoundTo(u, UsdPlaces, 2)) \o " cents"

WarnExtremeCost == "EXTREMELY HIGH GAS COST - Verify transaction details"

WarnNoTransfers == "No asset transfers detected"

\* _generate_warnings with the cost thresholds included (>= for >)
_generate_warnings_Inclusive(success, gas, usd, asset_changes) ==
    (IF ~success THEN <<WarnFail>> ELSE <<>>)
    \o (IF gas > HighGasLimit THEN <<WarnHighGas(gas)>> ELSE <<>>)
    \o (IF ~UsdGT(usd, HighCostUsd) /\ usd.units < HighCostUsd * Pow10(UsdPlaces)
        THEN <<>> ELSE <<WarnHighCost(usd)>>)
    \o (IF ~UsdGT(usd, ExtremeCostUsd) /\ usd.units < ExtremeCostUsd * Pow10(UsdPlaces)
        THEN <<>> ELSE <<WarnExtremeCost>>)
    \o (IF Len(asset_changes) = 0 THEN <<WarnNoTransfers>> ELSE <<>>)

_generate_warnings(success, gas, usd, asset_changes) ==
    (IF ~success THEN <<WarnFail>> ELSE <<>>)
    \o (IF gas > HighGasLimit THEN <<WarnHighGas(gas)>> ELSE <<>>)
    \o (IF UsdGT(usd, HighCostUsd) THEN <<WarnHighCost(usd)>> ELSE <<>>)
    \o (IF UsdGT(usd, ExtremeCostUsd) THEN <<WarnExtremeCost>> ELSE <<>>)
    \o (IF Len(asset_changes) = 0 THEN <<WarnNoTransfers>> ELSE <<>>)

\* lines 140-169, with the outermost except for a query that returned
\* something that is not a number (gas_estimate * current_gas_price raises)
Complete(chain_id, t, success, err, gas, price) ==
    IF ~IsInt(gas) \/ ~IsInt(price)
    THEN UnexpectedResult(chain_id, "unsupported operand type(s) for *")
    ELSE LET gas_cost_wei == Dec(gas.v * price.v.num, price.v.exp)
             gas_cost_eth == from_wei(gas_cost_wei, "ether")
             gas_cost_usd == UsdCost(gas_cost_eth, _get_eth_price(chain_id))
             asset_changes == _analyze_asset_changes(t.from, t.to, t.value, t.data)
             warnings == _generate_warnings(success, gas.v, gas_cost_usd, asset_changes)
         IN  [success |-> success,
              gas_used |-> gas.v,
              gas_cost_eth |-> gas_cost_eth,
              gas_cost_usd |-> Dec(RoundTo(gas_cost_usd, UsdPlaces, UsdPlaces), 0 - UsdPlaces),
              gas_price_gwei |-> from_wei(price.v, "gwei"),
              error |-> err,
              asset_changes |-> asset_changes,
              warnings |-> warnings,
              chain_id |-> chain_id,
              simulation_method |-> "eth_call"]

(***************************************************************************)
(* main.py: the SimulationResponse built from the engine dict, with the    *)
(* defaults of the fields that dict does not carry                         *)
(***************************************************************************)
Get(d, key, default) == IF key \in DOMAIN d THEN d[key] ELSE default

SimulationResponse(r) ==
    [success |-> r.success,
     gas_used |-> Get(r, "gas_used", 0),
     gas_cost_eth |-> Get(r, "gas_cost_eth", Dec(0, 0)),
     gas_cost_usd |-> Get(r, "gas_cost_usd", Dec(0, 0)),
     gas_price_gwei |-> Get(r, "gas_price_gwei", Dec(0, 0)),
     error |-> Get(r, "error", None),
     asset_changes |-> Get(r, "asset_changes", <<>>),
     warnings |-> Get(r, "warnings", <<>>),
     chain_id |-> r.chain_id,
     simulation_method |-> Get(r, "simulation_method", "unknown"),
     timestamp |-> "utcnow"]

(***************************************************************************)
(* The requests and the query outcomes the model draws from                *)
(***************************************************************************)
\* the most whitespace put in front of an address
MaxPad == 1

ValidBody == "0x" \o Rep("a", AddrLen - 2)

ShortBody == "0x" \o Rep("a", AddrLen - 3)

NoPrefixBody == Rep("a", AddrLen)

Addresses ==
    {Str(Rep(" ", k) \o b) : k \in 0..MaxPad, b \in {ValidBody, ShortBody}}
    \cup {Str(NoPrefixBody), None}

ChainIds == {1, 56, 137, 999}

Values == {Str("0x0"), Str("0x989680"), Str("-5"), Str(""), Str("0xz")}

Datas == {Str("0x"), Str("0xa9059cbb")}

Gases == {None, Str(""), Str("0x5208"), Str("g")}

GasPrices == {None, Str("2_0"), Str("x")}

Requests ==
    [chain_id : ChainIds, from_address : Addresses, to_address : Addresses,
     value : Values, data : Datas, gas : Gases, gas_price : GasPrices]

\* eth_call returns bytes (or anything else: the value is not used) or raises
CallOutcomes ==
    {Ok(Str("0x")), Ok(None), Raise(""), Raise("execution reverted")}

\* estimate_gas returns a number of units, something that is no number, or raises
EstimateOutcomes ==
    {Ok(PyInt(n)) : n \in {0, FallbackGas, 166667, HighGasLimit, HighGasLimit + 1, 5000000}}
    \cup {Ok(None), Raise("gas required exceeds allowance")}

\* gas_price returns a price in wei, something that is no number, or raises
GasPriceOutcomes ==
    {Ok(PyInt(Dec(200, GweiExp))), Ok(PyInt(Dec(1, 13))), Ok(None), Raise("timeout")}

(***************************************************************************)
(* The state machine                                                       *)
(***************************************************************************)
NoResult == [pending |-> TRUE]

Init ==
    /\ rpc_urls = RPC_URLS
    /\ w3_instances \in {W3Instances(RPC_URLS, F) : F \in SUBSET CtorMayFail}
    /\ pc = "idle"
    /\ args = NoKeys
    /\ tx = NoKeys
    /\ simulation_success = FALSE
    /\ error_msg = None
    /\ gas_estimate = None
    /\ current_gas_price = None
    /\ rpcLog = <<>>
    /\ result = NoResult

\* simulate_transaction is entered and runs to its first query or to an
\* early return (lines 74-113, 171-177)
Begin ==
    /\ pc = "idle"
    /\ \E a \in Requests :
        LET p == Prepare(w3_instances, a)
        IN  /\ args' = a
            /\ tx' = p.tx
            /\ result' = IF p.ret THEN p.result ELSE NoResult
            /\ pc' = IF p.ret THEN "done" ELSE "eth_call"
    /\ UNCHANGED <<rpc_urls, w3_instances, simulation_success, error_msg,
                   gas_estimate, current_gas_price, rpcLog>>

\* lines 116-123
EthCall ==
    /\ pc = "eth_call"
    /\ \E out \in CallOutcomes :
        /\ simulation_success' = AfterCall(out)[1]
        /\ error_msg' = AfterCall(out)[2]
        /\ rpcLog' = Append(rpcLog, [method |-> "eth_call", out |-> out])
    /\ pc' = "estimate_gas"
    /\ UNCHANGED <<rpc_urls, w3_instances, args, tx, gas_estimate,
                   current_gas_price, result>>

\* EstimateGas skipped after a failed simulate-call: the fallback is taken
\* without the query
EstimateGas_SkippedAfterFailure ==
    /\ pc = "estimate_gas"
    /\ IF simulation_success
       THEN \E out \in EstimateOutcomes :
                /\ gas_estimate' = AfterEstimate(out, error_msg)[1]
                /\ error_msg' = AfterEstimate(out, error_msg)[2]
                /\ rpcLog' = Append(rpcLog, [method |-> "eth_estimateGas", out |-> out])
       ELSE /\ gas_estimate' = PyInt(FallbackGas)
            /\ UNCHANGED <<error_msg, rpcLog>>
    /\ pc' = "gas_price"
    /\ UNCHANGED <<rpc_urls, w3_instances, args, tx, simulation_success,
                   current_gas_price, result>>

\* lines 126-132
EstimateGas ==
    /\ pc = "estimate_gas"
    /\ \E out \in EstimateOutcomes :
        /\ gas_estimate' = AfterEstimate(out, error_msg)[1]
        /\ error_msg' = AfterEstimate(out, error_msg)[2]
        /\ rpcLog' = Append(rpcLog, [method |-> "eth_estimateGas", out |-> out])
    /\ pc' = "gas_price"
    /\ UNCHANGED <<rpc_urls, w3_instances, args, tx, simulation_success,
                   current_gas_price, result>>

\* lines 135-138
GasPrice ==
    /\ pc = "gas_price"
    /\ \E out \in GasPriceOutcomes :
        /\ current_gas_price' = AfterGasPrice(out)
        /\ rpcLog' = Append(rpcLog, [method |-> "eth_gasPrice", out |-> out])
    /\ pc' = "finish"
    /\ UNCHANGED <<rpc_urls, w3_instances, args, tx, simulation_success,
                   error_msg, gas_estimate, result>>

\* Finish with a failed simulate-call ending the request: the failure is
\* returned without the estimates
Finish_FatalCall ==
    /\ pc = "finish"
    /\ result' = IF simulation_success
                 THEN Complete(args.chain_id, tx, simulation_success, error_msg,
                               gas_estimate, current_gas_price)
                 ELSE [success |-> FALSE, error |-> error_msg, chain_id |-> args.chain_id]
    /\ pc' = "done"
    /\ UNCHANGED <<rpc_urls, w3_instances, args, tx, simulation_success,
                   error_msg, gas_estimate, current_gas_price, rpcLog>>

\* lines 140-177
Finish ==
    /\ pc = "finish"
    /\ result' = Complete(args.chain_id, tx, simulation_success, error_msg,
                          gas_estimate, current_gas_price)
    /\ pc' = "done"
    /\ UNCHANGED <<rpc_urls, w3_instances, args, tx, simulation_success,
                   error_msg, gas_estimate, current_gas_price, rpcLog>>

\* the caller has the result (main.py lines 329-342); the engine is ready
\* for the next call
Return ==
    /\ pc = "done"
    /\ pc' = "idle"
    /\ args' = NoKeys
    /\ tx' = NoKeys
    /\ simulation_success' = FALSE
    /\ error_msg' = None
    /\ gas_estimate' = None
    /\ current_gas_price' = None
    /\ rpcLog' = <<>>
    /\ result' = NoResult
    /\ UNCHANGED <<rpc_urls, w3_instances>>

Next == Begin \/ EthCall \/ EstimateGas \/ GasPrice \/ Finish \/ Return

Spec == Init /\ [][Next]_vars

(***************************************************************************)
(* Several requests in flight on the one engine (main.py line 66 builds    *)
(* it once; every handler call at lines 329-337 enters                     *)
(* simulate_transaction on it).  The locals of simulate_transaction exist  *)
(* once per call, so here every variable but the registry is a function of *)
(* the request: pc[r], args[r], ...  A request may be overtaken by another *)
(* between any two of its steps.  The code itself never yields at the      *)
(* three queries (they are blocking calls, not awaits), so these           *)
(* interleavings include every schedule of the code.                       *)
(***************************************************************************)
\* the number of requests in flight together
MaxInFlight == 2

RequestIds == 1..MaxInFlight

ConcurrentRequests ==
    [chain_id : {137, 999}, from_address : {Str(ValidBody), Str(ShortBody)},
     to_address : {Str(ValidBody)}, value : {Str("0x989680")}, data : {Str("0x")},
     gas : {None}, gas_price : {None}]

ConcurrentCallOutcomes == {Ok(Str("0x")), Raise("execution reverted")}

ConcurrentEstimateOutcomes ==
    {Ok(PyInt(166667)), Raise("gas required exceeds allowance")}

ConcurrentGasPriceOutcomes == {Ok(PyInt(Dec(200, GweiExp))), Raise("timeout")}

ConcurrentInit ==
    /\ rpc_urls = RPC_URLS
    /\ w3_instances \in {W3Instances(RPC_URLS, F) : F \in SUBSET CtorMayFail}
    /\ pc = [r \in RequestIds |-> "idle"]
    /\ args = [r \in RequestIds |-> NoKeys]
    /\ tx = [r \in RequestIds |-> NoKeys]
    /\ simulation_success = [r \in RequestIds |-> FALSE]
    /\ error_msg = [r \in RequestIds |-> None]
    /\ gas_estimate = [r \in RequestIds |-> None]
    /\ current_gas_price = [r \in RequestIds |-> None]
    /\ rpcLog = [r \in RequestIds |-> <<>>]
    /\ result = [r \in RequestIds |-> NoResult]

\* lines 74-113, 171-177 of request r; w3_instances.get reads the registry
RequestBegin(r) ==
    /\ pc[r] = "idle"
    /\ \E a \in ConcurrentRequests :
        LET p == Prepare(w3_instances, a)
        IN  /\ args' = [args EXCEPT ![r] = a]
            /\ tx' = [tx EXCEPT ![r] = p.tx]
            /\ result' = [result EXCEPT ![r] = IF p.ret THEN p.result ELSE NoResult]
            /\ pc' = [pc EXCEPT ![r] = IF p.ret THEN "done" ELSE "eth_call"]
    /\ UNCHANGED <<rpc_urls, w3_instances, simulation_success, error_msg,
                   gas_estimate, current_gas_price, rpcLog>>

\* RequestEthCall with simulation_success and error_msg kept on the engine,
\* where every request reads them, instead of in locals
RequestEthCall_OnEngine(r) ==
    /\ pc[r] = "eth_call"
    /\ \E out \in ConcurrentCallOutcomes :
        /\ simulation_success' = [q \in RequestIds |-> AfterCall(out)[1]]
        /\ error_msg' = [q \in RequestIds |-> AfterCall(out)[2]]
        /\ rpcLog' = [rpcLog EXCEPT ![r] = Append(@, [method |-> "eth_call", out |-> out])]
    /\ pc' = [pc EXCEPT ![r] = "estimate_gas"]
    /\ UNCHANGED <<rpc_urls, w3_instances, args, tx, gas_estimate,
                   current_gas_price, result>>

\* lines 116-123 of request r
RequestEthCall(r) ==
    /\ pc[r] = "eth_call"
    /\ \E out \in ConcurrentCallOutcomes :
        /\ simulation_success' = [simulation_success EXCEPT ![r] = AfterCall(out)[1]]
        /\ error_msg' = [error_msg EXCEPT ![r] = AfterCall(out)[2]]
        /\ rpcLog' = [rpcLog EXCEPT ![r] = Append(@, [method |-> "eth_call", out |-> out])]
    /\ pc' = [pc EXCEPT ![r] = "estimate_gas"]
    /\ UNCHANGED <<rpc_urls, w3_instances, args, tx, gas_estimate,
                   current_gas_price, result>>

\* lines 126-132 of request r
RequestEstimateGas(r) ==
    /\ pc[r] = "estimate_gas"
    /\ \E out \in ConcurrentEstimateOutcomes :
        /\ gas_estimate' = [gas_estimate EXCEPT ![r] = AfterEstimate(out, error_msg[r])[1]]
        /\ error_msg' = [error_msg EXCEPT ![r] = AfterEstimate(out, error_msg[r])[2]]
        /\ rpcLog' = [rpcLog EXCEPT ![r] = Append(@, [method |-> "eth_estimateGas", out |-> out])]
    /\ pc' = [pc EXCEPT ![r] = "gas_price"]
    /\ UNCHANGED <<rpc_urls, w3_instances, args, tx, simulation_success,
                   current_gas_price, result>>

\* lines 135-138 of request r
RequestGasPrice(r) ==
    /\ pc[r] = "gas_price"
    /\ \E out \in ConcurrentGasPriceOutcomes :
        /\ current_gas_price' = [current_gas_price EXCEPT ![r] = AfterGasPrice(out)]
        /\ rpcLog' = [rpcLog EXCEPT ![r] = Append(@, [method |-> "eth_gasPrice", out |-> out])]
    /\ pc' = [pc EXCEPT ![r] = "finish"]
    /\ UNCHANGED <<rpc_urls, w3_instances, args, tx, simulation_success,
                   error_msg, gas_estimate, result>>

\* lines 140-177 of request r
RequestFinish(r) ==
    /\ pc[r] = "finish"
    /\ result' = [result EXCEPT ![r] =
                    Complete(args[r].chain_id, tx[r], simulation_success[r],
                             error_msg[r], gas_estimate[r], current_gas_price[r])]
    /\ pc' = [pc EXCEPT ![r] = "done"]
    /\ UNCHANGED <<rpc_urls, w3_instances, args, tx, simulation_success,
                   error_msg, gas_estimate, current_gas_price, rpcLog>>

\* the handler of request r has its result (main.py lines 329-342); the
\* frame of the call is gone
RequestReturn(r) ==
    /\ pc[r] = "done"
    /\ pc' = [pc EXCEPT ![r] = "idle"]
    /\ args' = [args EXCEPT ![r] = NoKeys]
    /\ tx' = [tx EXCEPT ![r] = NoKeys]
    /\ simulation_success' = [simulation_success EXCEPT ![r] = FALSE]
    /\ error_msg' = [error_msg EXCEPT ![r] = None]
    /\ gas_estimate' = [gas_estimate EXCEPT ![r] = None]
    /\ current_gas_price' = [current_gas_price EXCEPT ![r] = None]
    /\ rpcLog' = [rpcLog EXCEPT ![r] = <<>>]
    /\ result' = [result EXCEPT ![r] = NoResult]
    /\ UNCHANGED <<rpc_urls, w3_instances>>

ConcurrentNext ==
    \E r \in RequestIds :
        \/ RequestBegin(r)
        \/ RequestEthCall(r)
        \/ RequestEstimateGas(r)
        \/ RequestGasPrice(r)
        \/ RequestFinish(r)
        \/ RequestReturn(r)

ConcurrentSpec == ConcurrentInit /\ [][ConcurrentNext]_vars

(***************************************************************************)
(* Vocabulary of the properties                                            *)
(***************************************************************************)
Done == pc = "done"

\* the three queries were issued and answered
Queried == Len(rpcLog) = 3

CallOut == rpcLog[1].out

EstOut == rpcLog[2].out

PriceOut == rpcLog[3].out

\* a query outcome within the adapter's contract: a number, or a failure
InContract(out) == ~out.ok \/ IsInt(out.val)

Has(seq, x) == \E i \in 1..Len(seq) : seq[i] = x

Response == SimulationResponse(result)

\* the chain of the request resolves to a client
ChainSupported == args.chain_id \in DOMAIN w3_instances

\* an address, as supplied, has length 42 and the prefix 0x
ShapeOK(addr) == IsStr(addr) /\ Len(addr.v) = 42 /\ startswith(addr.v, "0x")

\* the same of the address without its leading and trailing whitespace
Trimmed(s) ==
    LET Blank(i) == At(s, i) \in Whitespace
        lo == CHOOSE i \in 1..Len(s) : ~Blank(i) /\ \A j \in 1..(i - 1) : Blank(j)
        hi == CHOOSE i \in 1..Len(s) : ~Blank(i) /\ \A j \in (i + 1)..Len(s) : Blank(j)
    IN  IF \A i \in 1..Len(s) : Blank(i) THEN "" ELSE SubSeq(s, lo, hi)

TrimmedShapeOK(addr) ==
    IsStr(addr) /\ Len(Trimmed(addr.v)) = 42 /\ startswith(Trimmed(addr.v), "0x")

AddressesAccepted == TrimmedShapeOK(args.from_address) /\ TrimmedShapeOK(args.to_address)

HexSet == {"0", "1", "2", "3", "4", "5", "6", "7", "8", "9",
           "a", "b", "c", "d", "e", "f", "A", "B", "C", "D", "E", "F"}

DecSet == {"0", "1", "2", "3", "4", "5", "6", "7", "8", "9"}

\* s is '0x' followed by one or more hex digits
IsHexString(s) ==
    /\ Len(s) > 2
    /\ startswith(s, "0x")
    /\ \A i \in 3..Len(s) : At(s, i) \in HexSet

\* s is one or more decimal digits
IsDecString(s) == Len(s) > 0 /\ \A i \in 1..Len(s) : At(s, i) \in DecSet

\* a number as the claim reads it: neither valid hex nor valid decimal
Malformed(x) == ~IsStr(x) \/ (~IsHexString(x.v) /\ ~IsDecString(x.v))

\* digits with single underscores between them, digits at both ends
Grouped(b, digits) ==
    /\ Len(b) > 0
    /\ \A i \in 1..Len(b) : At(b, i) \in digits \cup {"_"}
    /\ At(b, 1) # "_" /\ At(b, Len(b)) # "_"
    /\ \A i \in 1..(Len(b) - 1) : ~(At(b, i) = "_" /\ At(b, i + 1) = "_")

Unsign(t) == IF Len(t) > 0 /\ At(t, 1) \in {"+", "-"} THEN SubSeq(t, 2, Len(t)) ELSE t

\* what int(s, 16) reads: whitespace around, a sign, 0x or 0X (then possibly
\* one underscore), grouped hex digits
HexLiteral(s) ==
    LET u == Unsign(Trimmed(s))
        pre == Len(u) >= 2 /\ SubSeq(u, 1, 2) \in {"0x", "0X"}
        b == IF pre THEN SubSeq(u, 3, Len(u)) ELSE u
    IN  \/ Grouped(b, HexSet)
        \/ pre /\ Len(b) > 1 /\ At(b, 1) = "_" /\ Grouped(SubSeq(b, 2, Len(b)), HexSet)

\* what int(s) reads: whitespace around, a sign, grouped decimal digits
DecLiteral(s) == Grouped(Unsign(Trimmed(s)), DecSet)

\* the number is unreadable for int() in the base the code selects
Unreadable(x) ==
    \/ ~IsStr(x)
    \/ IF startswith(x.v, "0x") THEN ~HexLiteral(x.v) ELSE ~DecLiteral(x.v)

\* an optional number is given when it is a non-empty string
Given(x) == IsStr(x) /\ x.v # ""

FatalNoQuery ==
    /\ result.success = FALSE
    /\ result.error # None
    /\ rpcLog = <<>>

GenericFailure ==
    /\ result.success = FALSE
    /\ IsStr(result.error)
    /\ startswith(result.error.v, "Simulation failed: ")

InvalidAddressFailure ==
    /\ result.success = FALSE
    /\ IsStr(result.error)
    /\ startswith(result.error.v, "Invalid address: ")

\* a query answered with something that is no number, which the cost
\* computation cannot multiply
MalformedReturn == Queried /\ (~InContract(EstOut) \/ ~InContract(PriceOut))

(***************************************************************************)
(* C1.  simulate_transaction always returns a result with a boolean        *)
(* success and lets no exception out.                                      *)
(***************************************************************************)
ReturnsResult ==
    /\ {"success", "error", "chain_id"} \subseteq DOMAIN result
    /\ result.success \in BOOLEAN

\* a call that has not returned yet can take its next step
Proceeds ==
    pc \in {"eth_call", "estimate_gas", "gas_price", "finish"}
        => ENABLED (EthCall \/ EstimateGas \/ GasPrice \/ Finish)

\* C1 as stated: every call proceeds to a result with a boolean success, and
\* every failure other than a failed query (unsupported chain, invalid
\* address, unreadable number, a query answered with no number) gives
\* success = false with the generic 'Simulation failed' error.
C1_AsStated ==
    /\ Proceeds
    /\ Done =>
        /\ ReturnsResult
        /\ (rpcLog = <<>> \/ MalformedReturn) => GenericFailure

\* C1 amended: every call proceeds to a result with a boolean success; a failure
\* other than an unsupported chain, an invalid address or a failed query
\* (an unreadable number, a query answered with no number) gives
\* success = false with the generic 'Simulation failed' error.
C1_Amended ==
    /\ Proceeds
    /\ Done =>
        /\ ReturnsResult
        /\ ((rpcLog = <<>> \/ MalformedReturn) /\ ChainSupported /\ AddressesAccepted)
            => GenericFailure

\* a call whose three queries ran and whose estimate came back as no number
C1_Witness ==
    /\ Done
    /\ Queried
    /\ EstOut.ok /\ ~IsInt(EstOut.val)
    /\ GenericFailure

(***************************************************************************)
(* C2.  Unsupported chain: failure, an error, and no query.                *)
(***************************************************************************)
ChainUnsupported ==
    \/ args.chain_id \notin DOMAIN w3_instances
    \/ args.chain_id \notin DOMAIN rpc_urls
    \/ rpc_urls[args.chain_id] = ""

\* C2: for a chain that is not in the registry, or is registered with an
\* empty endpoint, the call returns success = false with the
\* chain-not-supported error whatever the addresses are, and never issues a
\* query.
C2_UnsupportedChain ==
    (pc # "idle" /\ ChainUnsupported) =>
        /\ Done
        /\ FatalNoQuery
        /\ result.error = Str("Chain " \o ToString(args.chain_id) \o " not supported")

\* the chain registered with an empty endpoint, asked with an address that
\* would fail normalization
C2_Witness ==
    /\ Done
    /\ args.chain_id \in DOMAIN rpc_urls
    /\ rpc_urls[args.chain_id] = ""
    /\ ~AddressesAccepted
    /\ FatalNoQuery

(***************************************************************************)
(* C3.  Addresses of the wrong shape fail normalization before any query.  *)
(***************************************************************************)
\* C3 as stated, for the requests that reach normalization and whose
\* numbers are readable: a from- or to-address that as supplied is not 42
\* characters with the prefix 0x fails normalization: success = false, an
\* invalid-address error, no query.
C3_AsStated ==
    (pc # "idle" /\ ChainSupported
        /\ ~Unreadable(args.value) /\ args.gas = None /\ args.gas_price = None
        /\ (~ShapeOK(args.from_address) \/ ~ShapeOK(args.to_address)))
        => (Done /\ InvalidAddressFailure /\ rpcLog = <<>>)

\* C3 amended: on a supported chain, a from- or to-address that, with its
\* leading and trailing whitespace removed, is not 42 characters with the
\* prefix 0x fails normalization: success = false, an invalid-address error,
\* no query.
C3_Amended ==
    (pc # "idle" /\ ChainSupported /\ ~AddressesAccepted)
        => (Done /\ InvalidAddressFailure /\ rpcLog = <<>>)

\* a supported chain asked with a padded address one character short
C3_Witness ==
    /\ Done
    /\ ChainSupported
    /\ IsStr(args.from_address)
    /\ startswith(args.from_address.v, " ")
    /\ ~TrimmedShapeOK(args.from_address)
    /\ TrimmedShapeOK(args.to_address)
    /\ InvalidAddressFailure

(***************************************************************************)
(* C4.  Numbers that are neither hex nor decimal are fatal.                *)
(***************************************************************************)
\* C4 as stated: when value, gas or gas_price is neither a valid 0x-prefixed
\* hex string nor a valid decimal string, the call returns success = false
\* with an error and issues no query.
C4_AsStated ==
    (pc # "idle" /\ (\/ Malformed(args.value)
                     \/ (args.gas # None /\ Malformed(args.gas))
                     \/ (args.gas_price # None /\ Malformed(args.gas_price))))
        => (Done /\ FatalNoQuery)

\* C4 amended: when value is unreadable for int() (base 16 after a 0x
\* prefix, base 10 otherwise; int() accepts surrounding whitespace, a sign
\* and single underscores between digits), or a non-empty gas or gas_price
\* is, the call returns success = false with an error and issues no query.
\* An empty gas or gas_price counts as absent.
C4_Amended ==
    (pc # "idle" /\ (\/ Unreadable(args.value)
                     \/ (Given(args.gas) /\ Unreadable(args.gas))
                     \/ (Given(args.gas_price) /\ Unreadable(args.gas_price))))
        => (Done /\ FatalNoQuery)

\* a request that passes the chain and address checks with an unreadable gas
C4_Witness ==
    /\ Done
    /\ ChainSupported
    /\ AddressesAccepted
    /\ ~Unreadable(args.value)
    /\ Given(args.gas) /\ Unreadable(args.gas)
    /\ GenericFailure
    /\ rpcLog = <<>>

(***************************************************************************)
(* C5.  The error of the simulate-call is never overwritten.               *)
(***************************************************************************)
\* C5: when the simulate-call fails, the error of the result is the text of
\* that failure whatever the other two queries do, and the
\* gas-estimation-failure message is the error only when the simulate-call
\* succeeded.
C5_AsStated ==
    (Done /\ Queried /\ InContract(EstOut) /\ InContract(PriceOut)) =>
        /\ ~CallOut.ok => result.error = Str(CallOut.exc)
        /\ (IsStr(result.error) /\ startswith(result.error.v, "Gas estimation failed: "))
            => CallOut.ok

(***************************************************************************)
(* C6.  The failure warning is there exactly when success is false.        *)
(***************************************************************************)
\* C6: in every result, the warnings hold the failure warning if and only
\* if success is false.
C6_AsStated ==
    Done => (Has(Response.warnings, WarnFail) <=> Response.success = FALSE)

(***************************************************************************)
(* C7.  gas_used is never reported as zero.                                *)
(***************************************************************************)
\* C7: in every result, on every path, the reported gas_used is a positive
\* integer.
C7_AsStated == Done => Response.gas_used > 0

(***************************************************************************)
(* C8.  The result carries every field.                                    *)
(***************************************************************************)
ResultFields ==
    {"success", "gas_used", "gas_cost_eth", "gas_cost_usd", "gas_price_gwei",
     "error", "asset_changes", "warnings", "chain_id", "simulation_method"}

\* C8: the dict returned by the engine has a value for every field of the
\* result, on every path.
C8_AsStated == Done => ResultFields \subseteq DOMAIN result

(***************************************************************************)
(* C9.  The fallback of the gas estimate.                                  *)
(***************************************************************************)
\* C9: when the estimate-gas query fails, gas_used is 21000, for every
\* outcome (a result or a failure) of the other two queries; when it
\* succeeds, gas_used is the number of units it reported.
C9_GasUsed ==
    (Done /\ Queried /\ InContract(EstOut) /\ InContract(PriceOut)) =>
        /\ "gas_used" \in DOMAIN result
        /\ result.gas_used = IF EstOut.ok THEN EstOut.val.v ELSE 21000

\* all three queries failed
C9_Witness ==
    /\ Done
    /\ Queried
    /\ ~CallOut.ok /\ ~EstOut.ok /\ ~PriceOut.ok
    /\ result.gas_used = 21000

(***************************************************************************)
(* C10.  The fallback of the gas price.                                    *)
(***************************************************************************)
\* the price the result shows and the cost it carries, for a price of
\* num * 10^exp wei
ShowsPrice(num, exp) ==
    /\ result.gas_price_gwei = Dec(num, exp - 9)
    /\ result.gas_cost_eth = Dec(result.gas_used * num, exp - 18)

C10_Result ==
    /\ (Queried /\ ~PriceOut.ok) => current_gas_price = PyInt(Dec(20, 9))
    /\ (Done /\ Queried /\ InContract(EstOut) /\ InContract(PriceOut)) =>
        /\ {"gas_price_gwei", "gas_cost_eth"} \subseteq DOMAIN result
        /\ IF PriceOut.ok
           THEN ShowsPrice(PriceOut.val.v.num, PriceOut.val.v.exp)
           ELSE ShowsPrice(20, 9)
        /\ result.success = simulation_success
        /\ result.error = error_msg

\* C10: when the gas-price query fails, the price used for the cost and
\* shown in the result is 20 gwei (20 * 10^9 wei), for every outcome of the
\* other two queries, and the query leaves success and error as they were;
\* when it succeeds, the reported price is used.
C10_GasPrice ==
    /\ []C10_Result
    /\ [][pc = "gas_price" =>
            (simulation_success' = simulation_success /\ error_msg' = error_msg)]_vars

\* the gas-price query failed after a failed simulate-call and an estimate
C10_Witness ==
    /\ Done
    /\ Queried
    /\ ~CallOut.ok
    /\ EstOut.ok /\ IsInt(EstOut.val) /\ EstOut.val.v = 166667
    /\ ~PriceOut.ok
    /\ result.gas_price_gwei = Dec(20, 0)
    /\ result.gas_cost_eth = Dec(3333340, -9)

(***************************************************************************)
(* C11.  The cost warnings against the reported cost.                      *)
(***************************************************************************)
HasHighCost(w) == \E i \in 1..Len(w) : startswith(w[i], "High gas cost: ")

HasExtremeCost(w) == Has(w, WarnExtremeCost)

\* the reported gas_cost_usd (rounded to 4 places) is greater than n USD
ReportedGT(n) ==
    Response.gas_cost_usd.num * Pow10(Response.gas_cost_usd.exp + 4) > n * 10000

ReportedGE(n) ==
    Response.gas_cost_usd.num * Pow10(Response.gas_cost_usd.exp + 4) >= n * 10000

\* the cost before rounding, gas_cost_eth times the USD price of the chain,
\* is greater than n USD
UnroundedGT(n) ==
    /\ "gas_cost_eth" \in DOMAIN result
    /\ UsdGT(UsdCost(result.gas_cost_eth, _get_eth_price(result.chain_id)), n)

\* C11 as stated: with gas_cost_usd the value reported in the result, rounded
\* to 4 places, the warnings hold the high-cost warning if and only if
\* gas_cost_usd > 10 and the extreme-cost warning if and only if
\* gas_cost_usd > 50; the comparisons are strict, and the extreme-cost
\* warning never comes without the high-cost warning.
C11_AsStated ==
    Done =>
        /\ HasHighCost(Response.warnings) <=> ReportedGT(10)
        /\ HasExtremeCost(Response.warnings) <=> ReportedGT(50)
        /\ HasExtremeCost(Response.warnings) => HasHighCost(Response.warnings)

\* C11 amended: the warnings hold the high-cost warning if and only if the
\* cost before rounding (gas_used * gas price, in the native unit, times the
\* USD price of the chain) is greater than 10 USD, and the extreme-cost
\* warning if and only if it is greater than 50 USD; the comparisons are
\* strict and the extreme-cost warning never comes without the high-cost
\* warning.  For the reported gas_cost_usd this gives: greater than the
\* threshold implies the warning, and the warning implies at least the
\* threshold.
C11_Amended ==
    Done =>
        /\ HasHighCost(Response.warnings) <=> UnroundedGT(10)
        /\ HasExtremeCost(Response.warnings) <=> UnroundedGT(50)
        /\ HasExtremeCost(Response.warnings) => HasHighCost(Response.warnings)
        /\ ReportedGT(10) => HasHighCost(Response.warnings)
        /\ HasHighCost(Response.warnings) => ReportedGE(10)
        /\ ReportedGT(50) => HasExtremeCost(Response.warnings)
        /\ HasExtremeCost(Response.warnings) => ReportedGE(50)

\* a cost of exactly 50 USD (5000000 units at 10000 gwei on the chain priced
\* at 1 USD): the high-cost warning without the extreme-cost warning
C11_Witness ==
    /\ Done
    /\ Queried
    /\ "gas_cost_usd" \in DOMAIN result
    /\ result.gas_cost_usd = Dec(500000, -4)
    /\ HasHighCost(result.warnings)
    /\ ~HasExtremeCost(result.warnings)

(***************************************************************************)
(* C12.  Asset changes: one native transfer for a positive value.          *)
(***************************************************************************)
\* the request ran through the three queries to the result of lines 158-169
Completed == Done /\ Queried /\ ~MalformedReturn

\* the one entry of a native transfer of amount from the sender to the
\* recipient (the addresses as normalized)
IsNativeTransfer(c, amount) ==
    /\ c.asset_type = "NATIVE"
    /\ c.change_type = "TRANSFER"
    /\ c.from = Str(Trimmed(args.from_address.v))
    /\ c.to = Str(Trimmed(args.to_address.v))
    /\ c.amount_wei = amount

\* C12: for every request that completes the pipeline, asset_changes holds
\* exactly one entry when the normalized value is > 0 (NATIVE/TRANSFER, from
\* the sender to the recipient, amount_wei the normalized value: '0x989680'
\* gives 10000000) and is empty when the value is 0; the call data never
\* changes asset_changes (they are determined by the value and the addresses
\* alone, every entry being the native transfer), and the 'no transfers
\* detected' warning is present exactly when asset_changes is empty.
C12_AssetChanges ==
    Completed =>
        /\ "asset_changes" \in DOMAIN result
        /\ tx.value > 0 =>
            /\ Len(result.asset_changes) = 1
            /\ IsNativeTransfer(result.asset_changes[1], tx.value)
        /\ tx.value = 0 => result.asset_changes = <<>>
        /\ args.value = Str("0x989680") =>
            /\ Len(result.asset_changes) = 1
            /\ result.asset_changes[1].amount_wei = 10000000
        /\ \A i \in 1..Len(result.asset_changes) :
            /\ i = 1
            /\ IsNativeTransfer(result.asset_changes[i], tx.value)
        /\ Has(result.warnings, WarnNoTransfers) <=> result.asset_changes = <<>>

\* a transfer of 0x989680 with call data of a token transfer, from a padded
\* sender address
C12_Witness ==
    /\ Completed
    /\ args.value = Str("0x989680")
    /\ args.data = Str("0xa9059cbb")
    /\ startswith(args.from_address.v, " ")
    /\ Len(result.asset_changes) = 1
    /\ result.asset_changes[1].amount_wei = 10000000
    /\ result.asset_changes[1].from = Str(ValidBody)
    /\ ~Has(result.warnings, WarnNoTransfers)

(***************************************************************************)
(* C13.  Three queries, in order, whatever the earlier ones answered.      *)
(***************************************************************************)
QueryOrder == <<"eth_call", "eth_estimateGas", "eth_gasPrice">>

Methods == [i \in 1..Len(rpcLog) |-> rpcLog[i].method]

\* the request passes chain resolution and normalization: a supported chain,
\* two addresses of the right shape, numbers that int() reads
Passes ==
    /\ ChainSupported
    /\ AddressesAccepted
    /\ ~Unreadable(args.value)
    /\ Given(args.gas) => ~Unreadable(args.gas)
    /\ Given(args.gas_price) => ~Unreadable(args.gas_price)

\* the queries issued so far are the first ones of the order, once each, and
\* a request that passes returns only after all three
C13_Issued ==
    /\ Methods = SubSeq(QueryOrder, 1, Len(rpcLog))
    /\ pc = "eth_call" => Len(rpcLog) = 0
    /\ pc = "estimate_gas" => Len(rpcLog) = 1
    /\ pc = "gas_price" => Len(rpcLog) = 2
    /\ pc = "finish" => Len(rpcLog) = 3
    /\ (Done /\ ~Queried) => (rpcLog = <<>> /\ ~Passes)
    /\ (pc \notin {"idle", "done"}) => tx # NoKeys

\* every step of a request in flight issues the next query of the order,
\* whatever the queries before it answered
C13_Step ==
    /\ (pc = "idle" /\ pc' # "done") => (pc' = "eth_call" /\ rpcLog' = <<>>)
    /\ pc = "eth_call" =>
        (pc' = "estimate_gas" /\ Len(rpcLog') = 1 /\ rpcLog'[1].method = "eth_call")
    /\ pc = "estimate_gas" =>
        (pc' = "gas_price" /\ SubSeq(rpcLog', 1, 1) = rpcLog
            /\ Len(rpcLog') = 2 /\ rpcLog'[2].method = "eth_estimateGas")
    /\ pc = "gas_price" =>
        (pc' = "finish" /\ SubSeq(rpcLog', 1, 2) = rpcLog
            /\ Len(rpcLog') = 3 /\ rpcLog'[3].method = "eth_gasPrice")
    /\ pc = "finish" => (pc' = "done" /\ rpcLog' = rpcLog)

\* C13: for every request that passes chain resolution and normalization, the
\* engine issues exactly one simulate-call, then exactly one estimate-gas,
\* then exactly one gas-price query, each whether or not the earlier queries
\* failed, and it never issues any other call (no write, no broadcast).
C13_Queries == []C13_Issued /\ [][C13_Step]_vars

\* the simulate-call and the estimate failed and the gas-price query was
\* still issued and answered
C13_Witness ==
    /\ pc = "finish"
    /\ Methods = QueryOrder
    /\ ~CallOut.ok /\ ~EstOut.ok /\ PriceOut.ok
    /\ Passes

(***************************************************************************)
(* C14.  A failed simulate-call does not end the pipeline.                 *)
(***************************************************************************)
\* the price the cost is computed with: the one reported, or the fallback
PriceUsed == IF PriceOut.ok THEN PriceOut.val.v ELSE Dec(20, 9)

\* the units the cost is computed with: the ones reported, or the fallback
UnitsUsed == IF EstOut.ok THEN EstOut.val.v ELSE 21000

\* the result carries what the rest of the pipeline computes: units, cost,
\* asset changes and warnings
CarriesEstimates ==
    /\ {"gas_used", "gas_cost_eth", "gas_cost_usd", "gas_price_gwei",
        "asset_changes", "warnings"} \subseteq DOMAIN result
    /\ result.gas_used = UnitsUsed
    /\ result.gas_cost_eth = Dec(UnitsUsed * PriceUsed.num, PriceUsed.exp - 18)
    /\ Len(result.asset_changes) = IF tx.value > 0 THEN 1 ELSE 0
    /\ Has(result.warnings, WarnNoTransfers) <=> ~(tx.value > 0)
    /\ Has(result.warnings, WarnHighGas(UnitsUsed)) <=> UnitsUsed > 1000000

\* C14: a failed simulate-call is not fatal.  For every request that passes
\* validation (its three queries are issued), success is true if and only if
\* the simulate-call succeeded, whatever the outcome (a number or a failure)
\* of the estimate-gas and gas-price queries, and when the simulate-call
\* fails the result still carries gas_used, the gas cost, asset_changes and
\* warnings computed by the rest of the pipeline.
C14_NonFatal ==
    (Done /\ Queried /\ InContract(EstOut) /\ InContract(PriceOut)) =>
        /\ result.success \in BOOLEAN
        /\ result.success <=> CallOut.ok
        /\ ~CallOut.ok =>
            /\ CarriesEstimates
            /\ Has(result.warnings, WarnFail)

\* the simulate-call reverted, the other two queries answered, and the
\* result carries the estimate and the transfer
C14_Witness ==
    /\ Done
    /\ Queried
    /\ CallOut = Raise("execution reverted")
    /\ EstOut = Ok(PyInt(1000001))
    /\ PriceOut.ok /\ IsInt(PriceOut.val)
    /\ result.success = FALSE
    /\ result.gas_used = 1000001
    /\ Len(result.asset_changes) = 1

(***************************************************************************)
(* C15.  Concurrent requests share nothing but the registry, which         *)
(* simulate_transaction only reads.                                        *)
(***************************************************************************)
\* the result of a request run alone on the registry inst with arguments a,
\* its queries answered as in log
Alone(inst, a, log) ==
    LET p == Prepare(inst, a)
    IN  IF p.ret THEN p.result
        ELSE Complete(a.chain_id, p.tx,
                      AfterCall(log[1].out)[1],
                      AfterEstimate(log[2].out, AfterCall(log[1].out)[2])[2],
                      AfterEstimate(log[2].out, AfterCall(log[1].out)[2])[1],
                      AfterGasPrice(log[3].out))

\* the registry is the one built at construction
RegistryAsBuilt ==
    /\ rpc_urls = RPC_URLS
    /\ \E F \in SUBSET CtorMayFail : w3_instances = W3Instances(RPC_URLS, F)

C15_Alone ==
    /\ RegistryAsBuilt
    /\ \A r \in RequestIds :
        pc[r] = "done" => result[r] = Alone(w3_instances, args[r], rpcLog[r])

C15_RegistryKept == w3_instances' = w3_instances /\ rpc_urls' = rpc_urls

\* C15: concurrent requests share no mutable state.  simulate_transaction
\* never adds, removes or replaces an entry of the chain registry built at
\* construction, and for every interleaving of the requests in flight at
\* their queries each request's result equals the result it produces when
\* run alone with the same query outcomes.
C15_Isolated == []C15_Alone /\ [][C15_RegistryKept]_vars

\* one request has returned a failed simulation (its simulate-call reverted)
\* while another, whose simulate-call succeeded, is between its queries
C15_Witness ==
    /\ pc[1] = "done"
    /\ Len(rpcLog[1]) = 3
    /\ ~rpcLog[1][1].out.ok
    /\ result[1].success = FALSE
    /\ pc[2] = "gas_price"
    /\ rpcLog[2][1].out.ok
    /\ simulation_success[2] = TRUE

====
